---- MODULE Spec2Model ----
(***************************************************************************)
(* Model of the KodiTraining video pipeline: the job registry and the two  *)
(* processing pipelines of server/routes/process.js, driving the stage     *)
(* functions of server/services/ffmpeg.js, the reset route, and the App    *)
(* component of the browser client with its API functions.                 *)
(*                                                                         *)
(* One action is one turn of the Node.js event loop: an HTTP handler, or   *)
(* the continuation of a pipeline after the promise it awaits settles,     *)
(* run up to its next await.  Promise reactions (microtasks) run before    *)
(* any other event: MicrotaskPending guards every other action.            *)
(***************************************************************************)
EXTENDS Integers, Sequences, FiniteSets, TLC

\* ------------------------------------------------------------------ bounds
MaxConcurrent == 2
MaxLen == 2
MaxEvents == 1
MaxSpread == 10
MaxClock == 1
MaxPolls == 2

\* ------------------------------------------------------- program constants
PairwiseExtraSteps == 2
ConcatFirstTotalSteps == 4
PadTolerance == 5
ConcatProgressCap == 99
PercentCap == 100

\* --------------------------------------------------------------- universes
JobIds == 1..MaxConcurrent
FileIds == 1..MaxLen
NoJob == 0
Undefined == -1
Null == -2

\* The id lists POST /order may receive: the last n uploaded file ids, for
\* every n up to MaxLen (the empty list included), so that two different
\* lists differ in length and in their first id.
OrderLists == { [k \in 1..n |-> MaxLen - n + k] : n \in 0..MaxLen }

\* The completion percentages the tool reports, in tenths of a percent
\* (progress.percent is a float, and may be missing, zero or above 100).
RawPercents == {Undefined, 0, 405, 1500}

\* The timemarks the tool reports, as <<hours, minutes, seconds>>; <<>> is a
\* missing timemark and <<0, 30>> one that does not have three parts.
Timemarks == {<<>>, <<0, 30>>, <<0, 0, 30>>}

\* What ffprobe answers: an error, metadata without a duration, or metadata
\* with a duration (seconds).
ProbeError == [err |-> TRUE, duration |-> Undefined]
ProbeNoDuration == [err |-> FALSE, duration |-> Undefined]
ProbeNullDuration == [err |-> FALSE, duration |-> Null]
ProbeDuration(d) == [err |-> FALSE, duration |-> d]
\* for a camera segment
SegmentProbeAnswers == {ProbeError, ProbeNoDuration, ProbeDuration(60)}
\* for a concatenated stream
StreamProbeAnswers ==
  {ProbeError, ProbeNoDuration, ProbeDuration(60), ProbeDuration(70)}

\* Every duration of a concatenated stream from one minute up to MaxSpread
\* seconds more, so that two of them differ by less than, exactly and more
\* than the padding tolerance.
StreamDurations == { ProbeDuration(60 + d) : d \in 0..MaxSpread }

\* Error messages (the tool's own text after the colon is left out).
MsgNone == "none"
MsgCombine == "Failed to combine videos"
MsgConcat == "Failed to concatenate videos"
MsgPrepare == "Failed to prepare concatenation"
MsgNoInput == "No input videos provided for concatenation"
MsgCompress == "Failed to compress video"
MsgPad == "Failed to pad video"
MsgProbe == "Failed to get video duration"
MsgNoDuration == "Could not determine video duration"
MsgFileNotFound == "File not found for ID"

\* Output paths, all under the one output directory (output/pairs for pairs).
PairPath(i) == <<"pairs/pair", i>>
CombinedPath == <<"combined", 0>>
FinalPath == <<"final", 0>>
ConcatAPath == <<"concat_a", 0>>
ConcatBPath == <<"concat_b", 0>>
PaddedAPath == <<"concat_a_padded", 0>>
PaddedBPath == <<"concat_b_padded", 0>>
OutputPaths ==
  {PairPath(i) : i \in 1..MaxLen}
    \cup {CombinedPath, FinalPath, ConcatAPath, ConcatBPath, PaddedAPath, PaddedBPath}

NoFile == [owner |-> NoJob, complete |-> FALSE]

\* The file lists of the concatenations live in the temporary directory and
\* are named after the clock reading, ffmpeg-concat-${Date.now()}.txt.
ListPaths == 0..MaxClock
NoList == [owner |-> NoJob, present |-> FALSE]

VARIABLES
  videoOrder,   \* the stored ordering { a, b }
  jobs,         \* the registry: job id -> { progress, status, error }
  pipe,         \* job id -> the frame of its running pipeline function
  files,        \* output directory: path -> who wrote it and whether it is whole
  uploads,      \* uploads/a and uploads/b: the file ids present
  response,     \* the response POST /process sent in this turn, if any
  started,      \* job id -> the stages it has started, in order
  inflight,     \* job id -> number of its tool processes now running
  failure,      \* job id -> the stage that failed, its error, the progress recorded
                \* just before and the number of stages started by then
  events,       \* progress events and reset requests delivered so far
  tmp,          \* temporary directory: list path -> whose list it holds, if any
  clock,        \* Date.now()
  client        \* the state of the browser client's App component

vars ==
  <<videoOrder, jobs, pipe, files, uploads, response, started, inflight, failure, events,
    tmp, clock, client>>

\* ---------------------------------------------------------- pure functions
\* Math.round of x = num/den, for den > 0: the nearest integer, halves up.
\* The source rounds a double; the two agree on every value drawn here (step
\* completions, and the stage percents of RawPercents and Timemarks).
Round(num, den) == (2 * num + den) \div (2 * den)

Min(x, y) == IF x <= y THEN x ELSE y

\* JavaScript truthiness of a reported percent: undefined and 0 are falsy.
Truthy(raw) == raw # Undefined /\ raw # 0

\* Math.round(progress.percent), the percent given in tenths.
RoundPercent(raw) == Round(raw, 10)

\* The progress handler of combinePair, compressVideo and padVideo: the value
\* it forwards to onProgress, or Undefined when it forwards nothing.
StagePercent(raw) == IF Truthy(raw) THEN RoundPercent(raw) ELSE Undefined

\* parseTimemark: seconds of "HH:MM:SS", 0 for anything else.
parseTimemark(timemark) ==
  IF Len(timemark) # 3 THEN 0
  ELSE timemark[1] * 3600 + timemark[2] * 60 + timemark[3]

\* Mutant: the tool's own percent is preferred to the timemark.
ConcatPercent_PrefersRaw(totalDuration, timemark, raw) ==
  IF Truthy(raw) THEN Min(PercentCap, RoundPercent(raw))
  ELSE IF totalDuration > 0 /\ timemark # <<>>
    THEN Min(ConcatProgressCap, Round(parseTimemark(timemark) * 100, totalDuration))
  ELSE Undefined

\* The progress handler of concatenateVideos.
ConcatPercent(totalDuration, timemark, raw) ==
  IF totalDuration > 0 /\ timemark # <<>>
    THEN Min(ConcatProgressCap, Round(parseTimemark(timemark) * 100, totalDuration))
  ELSE IF Truthy(raw) THEN Min(PercentCap, RoundPercent(raw))
  ELSE Undefined

\* Math.round(((completedSteps + percent / 100) / totalSteps) * 100).
OverallProgress(completedSteps, percent, totalSteps) ==
  Round(completedSteps * 100 + percent, totalSteps)

\* Mutant: only an undefined duration is refused; null resolves with 0.
getVideoDuration_NullIsZero(answer) ==
  IF answer.err THEN [ok |-> FALSE, value |-> 0, msg |-> MsgProbe]
  ELSE IF answer.duration = Undefined
    THEN [ok |-> FALSE, value |-> 0, msg |-> MsgNoDuration]
  ELSE IF answer.duration = Null THEN [ok |-> TRUE, value |-> 0, msg |-> MsgNone]
  ELSE [ok |-> TRUE, value |-> answer.duration, msg |-> MsgNone]

\* Mutant: metadata without a duration resolves with 0.
getVideoDuration_DefaultsToZero(answer) ==
  IF answer.err THEN [ok |-> FALSE, value |-> 0, msg |-> MsgProbe]
  ELSE IF answer.duration = Undefined \/ answer.duration = Null
    THEN [ok |-> TRUE, value |-> 0, msg |-> MsgNone]
  ELSE [ok |-> TRUE, value |-> answer.duration, msg |-> MsgNone]

\* getVideoDuration: the settled promise for an ffprobe answer.
getVideoDuration(answer) ==
  IF answer.err THEN [ok |-> FALSE, value |-> 0, msg |-> MsgProbe]
  ELSE IF answer.duration = Undefined \/ answer.duration = Null
    THEN [ok |-> FALSE, value |-> 0, msg |-> MsgNoDuration]
  ELSE [ok |-> TRUE, value |-> answer.duration, msg |-> MsgNone]

\* findFileById: does a file whose name starts with the id exist in the dir.
findFileById(dir, id) == id \in dir

\* The validation of POST /process: "ok", or the error of the 400 response.
ErrNoOrder == "No video order set. Call POST /order first"
ErrLength == "Arrays a and b must have the same length for pair-by-pair mode"
\* Mutant: the equal-length validation of pair-by-pair mode is missing.
ValidateProcess_NoLengthCheck(order, concatenateFirst) ==
  IF Len(order.a) = 0 \/ Len(order.b) = 0 THEN ErrNoOrder ELSE "ok"

\* Mutant: the request is refused only when both lists are empty.
ValidateProcess_BothEmpty(order, concatenateFirst) ==
  IF Len(order.a) = 0 /\ Len(order.b) = 0 THEN ErrNoOrder
  ELSE IF ~concatenateFirst /\ Len(order.a) # Len(order.b) THEN ErrLength
  ELSE "ok"

\* Mutant: the equal-length validation is applied in both modes.
ValidateProcess_LengthCheckBothModes(order, concatenateFirst) ==
  IF Len(order.a) = 0 \/ Len(order.b) = 0 THEN ErrNoOrder
  ELSE IF Len(order.a) # Len(order.b) THEN ErrLength
  ELSE "ok"

ValidateProcess(order, concatenateFirst) ==
  IF Len(order.a) = 0 \/ Len(order.b) = 0 THEN ErrNoOrder
  ELSE IF ~concatenateFirst /\ Len(order.a) # Len(order.b) THEN ErrLength
  ELSE "ok"

\* ------------------------------------------------------------------- state
\* Map.set(key, value).
MapSet(m, key, value) ==
  [k \in DOMAIN m \cup {key} |-> IF k = key THEN value ELSE m[k]]

JobRecord(progress, status, error) ==
  [progress |-> progress, status |-> status, error |-> error]

\* The record POST /process registers for a new job.
InitialJob == JobRecord(0, "processing", MsgNone)

\* The record written while a stage reports progress and when a step completes.
ProcessingJob(progress) == JobRecord(progress, "processing", MsgNone)

\* The record both pipelines write on success.
DoneJob == JobRecord(100, "done", MsgNone)

\* The record the pipeline's own catch block writes.
PipelineCatchJob(f, msg) ==
  JobRecord(Round(f.completedSteps * 100, f.totalSteps), "error", msg)

\* Mutant: the handler stores a generic message instead of error.message.
HandlerCatchJob_Generic(msg) == JobRecord(0, "error", "Failed to start processing")

\* Mutant: the handler puts the job back to processing.
HandlerCatchJob_Processing(msg) == JobRecord(0, "processing", MsgNone)

\* The record the catch handler of POST /process writes.
HandlerCatchJob(msg) == JobRecord(0, "error", msg)

\* What POST /process answers: { jobId }, or status 400 with { error }.
ProcessResponse(kind, concatenateFirst, code, error, jobId) ==
  [kind |-> kind, concatenateFirst |-> concatenateFirst, code |-> code,
   error |-> error, jobId |-> jobId]
NoResponse == ProcessResponse("none", FALSE, 0, MsgNone, NoJob)

\* Stage labels of the started log.
StageCombine(i) == <<"combine", i>>
StageConcat(k) == <<"concat", k>>
StageProbe(k) == <<"probe", k>>
StagePad(k) == <<"pad", k>>
StageCompress == <<"compress", 0>>
CamA == 1
CamB == 2

NoStage == <<"none", 0>>
NoFailure == [stage |-> NoStage, before |-> 0, msg |-> MsgNone, count |-> 0]

\* A promise reaction is queued: the rejection of a pipeline's promise has not
\* yet reached the catch handler of POST /process.
MicrotaskPending == \E j \in DOMAIN pipe : pipe[j].pc = "rejected"

\* Mutant: concatenate-first counts one step per camera segment.
NewFrame_StepsPerSegment(order, concatenateFirst) ==
  [mode |-> IF concatenateFirst THEN "ConcatenateFirst" ELSE "Pairwise",
   a |-> order.a, b |-> order.b,
   pc |-> "mkdir",
   totalSteps |-> IF concatenateFirst THEN Len(order.a) + Len(order.b) + PairwiseExtraSteps
                  ELSE Len(order.a) + PairwiseExtraSteps,
   completedSteps |-> 0,
   pairPaths |-> <<>>,
   cam |-> 0, probeIdx |-> 0, probeFailures |-> 0, totalDuration |-> 0,
   reencode |-> FALSE, tempListPath |-> Undefined,
   inputs |-> 0, inputPaths |-> <<>>, output |-> <<"none", 0>>, pending |-> MsgNone,
   reported |-> 0,
   durationA |-> 0, durationB |-> 0, padTarget |-> 0, paddingAmount |-> 0,
   finalConcatAPath |-> <<"none", 0>>, finalConcatBPath |-> <<"none", 0>>,
   error |-> MsgNone]

\* The frame of a pipeline function at its first await (fs.mkdir).
NewFrame(order, concatenateFirst) ==
  [mode |-> IF concatenateFirst THEN "ConcatenateFirst" ELSE "Pairwise",
   a |-> order.a, b |-> order.b,
   pc |-> "mkdir",
   totalSteps |-> IF concatenateFirst THEN ConcatFirstTotalSteps
                  ELSE Len(order.a) + PairwiseExtraSteps,
   completedSteps |-> 0,
   pairPaths |-> <<>>,
   cam |-> 0, probeIdx |-> 0, probeFailures |-> 0, totalDuration |-> 0,
   reencode |-> FALSE, tempListPath |-> Undefined,
   inputs |-> 0, inputPaths |-> <<>>, output |-> <<"none", 0>>, pending |-> MsgNone,
   reported |-> 0,
   durationA |-> 0, durationB |-> 0, padTarget |-> 0, paddingAmount |-> 0,
   finalConcatAPath |-> <<"none", 0>>, finalConcatBPath |-> <<"none", 0>>,
   error |-> MsgNone]

\* The App component after mounting.  timer is the job the running interval
\* polls (pollingIntervalRef.current with the jobId of its closure), polls
\* the getStatus requests in flight; settled and doneSeen remember the jobs
\* for which a poll has ended the polling, and for which one returned done.
NewClient ==
  [status |-> "idle", isProcessing |-> FALSE, jobId |-> NoJob, downloadUrl |-> NoJob,
   progress |-> 0, error |-> MsgNone,
   pc |-> "ready", orderA |-> <<>>, orderB |-> <<>>,
   timer |-> NoJob, polls |-> [j \in JobIds |-> 0],
   settled |-> {}, doneSeen |-> {}]

InitWith(order) ==
  /\ client = NewClient
  /\ videoOrder = order
  /\ jobs = <<>>
  /\ pipe = <<>>
  /\ files = [p \in OutputPaths |-> NoFile]
  /\ uploads = [a |-> FileIds, b |-> FileIds]
  /\ response = NoResponse
  /\ started = <<>>
  /\ inflight = <<>>
  /\ failure = <<>>
  /\ events = 0
  /\ tmp = [t \in ListPaths |-> NoList]
  /\ clock = 0

\* The server after start-up: no ordering stored, no job.
Init == InitWith([a |-> <<>>, b |-> <<>>])

\* ------------------------------------------------- pipeline continuations
\* The state one job's pipeline reads and writes during a turn: its frame f,
\* the registry, the output directory, the temporary directory, and its log
\* entries.
Cur(j) ==
  [f |-> pipe[j], reg |-> jobs, fs |-> files, tmp |-> tmp,
   st |-> started[j], run |-> inflight[j], fail |-> failure[j]]

Commit(j, c) ==
  /\ pipe' = [pipe EXCEPT ![j] = c.f]
  /\ jobs' = c.reg
  /\ files' = c.fs
  /\ tmp' = c.tmp
  /\ started' = [started EXCEPT ![j] = c.st]
  /\ inflight' = [inflight EXCEPT ![j] = c.run]
  /\ failure' = [failure EXCEPT ![j] = c.fail]

\* Mutant: the write replaces the whole registry by the one record.
SetJob_ReplacesAll(j, c, record) ==
  [c EXCEPT !.reg = [k \in DOMAIN c.reg \cup {j} |-> record]]

\* jobs.set(jobId, record).
SetJob(j, c, record) == [c EXCEPT !.reg = MapSet(c.reg, j, record)]

\* The tool opens its output file when it starts and has written it whole
\* when it ends, unless another process has opened the same path since.
OpenFile(fs, p, j) == [fs EXCEPT ![p] = [owner |-> j, complete |-> FALSE]]
CloseFile(fs, p, j) ==
  IF fs[p].owner = j THEN [fs EXCEPT ![p] = [owner |-> j, complete |-> TRUE]] ELSE fs

\* command.run(): a tool process of job j starts writing `out`.  f.reported
\* keeps the last percent the stage has passed to onProgress (0 before any).
RunTool(j, c, pc, out) ==
  [c EXCEPT !.f.pc = pc, !.f.output = out, !.f.reported = 0,
            !.fs = OpenFile(c.fs, out, j), !.run = c.run + 1]

\* The tool process of job j ends: success closes its output file.
ToolExit(j, c, success) ==
  [c EXCEPT !.run = c.run - 1, !.f.reported = 0,
            !.fs = IF success THEN CloseFile(c.fs, c.f.output, j) ELSE c.fs]

LogStage(c, stage) == [c EXCEPT !.st = Append(c.st, stage)]

\* Mutant: the catch block rolls back, deleting the job's output files.
PipelineCatch_RollsBack(j, c, stage, msg) ==
  [SetJob(j, c, PipelineCatchJob(c.f, msg)) EXCEPT
     !.f.pc = "rejected", !.f.error = msg,
     !.fs = [p \in OutputPaths |-> IF c.fs[p].owner = j THEN NoFile ELSE c.fs[p]],
     !.fail = [stage |-> stage, before |-> c.reg[j].progress, msg |-> msg,
               count |-> Len(c.st)]]

\* The catch block of processVideos / processVideosConcatenateFirst: records
\* the error and rethrows, which rejects the pipeline's promise.
PipelineCatch(j, c, stage, msg) ==
  [SetJob(j, c, PipelineCatchJob(c.f, msg)) EXCEPT
     !.f.pc = "rejected", !.f.error = msg,
     !.fail = [stage |-> stage, before |-> c.reg[j].progress, msg |-> msg,
               count |-> Len(c.st)]]

\* Mutant: the registry update is computed before completedSteps++.
StepCompleted_BeforeIncrement(j, c) ==
  LET d == [c EXCEPT !.f.completedSteps = c.f.completedSteps + 1] IN
    SetJob(j, d, ProcessingJob(Round(c.f.completedSteps * 100, d.f.totalSteps)))

\* completedSteps++ followed by the step-completion registry update.
StepCompleted(j, c) ==
  LET d == [c EXCEPT !.f.completedSteps = c.f.completedSteps + 1] IN
    SetJob(j, d, ProcessingJob(Round(d.f.completedSteps * 100, d.f.totalSteps)))

\* Mutant: the callback records the stage's own percent.
StageProgress_StagePercentOnly(j, c, percent) ==
  SetJob(j, c, ProcessingJob(percent))

\* The registry update of a stage's progress callback.
StageProgress(j, c, percent) ==
  SetJob(j, c, ProcessingJob(OverallProgress(c.f.completedSteps, percent, c.f.totalSteps)))

\* combinePair(videoA, videoB, out, onProgress).
BeginCombine(j, c, stage, out) == RunTool(j, LogStage(c, stage), "combine", out)

\* compressVideo(combinedPath, finalPath, config, onProgress).
BeginCompress(j, c) == RunTool(j, LogStage(c, StageCompress), "compress", FinalPath)

\* padVideo(in, out, paddingAmount, onProgress).
BeginPad(j, c, cam, out) == RunTool(j, LogStage(c, StagePad(cam)), "pad", out)

\* getVideoDuration(path): an ffprobe process starts.
BeginProbe(j, c, pc) == [c EXCEPT !.f.pc = pc, !.run = c.run + 1]

\* concatenateVideos names its file list after the clock and awaits
\* fs.writeFile.
WriteList(c) == [c EXCEPT !.f.pc = "concatWrite", !.f.tempListPath = clock]

\* Mutant: the list is left in the temporary directory.
UnlinkList_Skipped(c) == c

\* fs.unlink(tempListPath): removes whatever is at the path; a missing file
\* is an error the caller ignores.
UnlinkList(c) == [c EXCEPT !.tmp[c.f.tempListPath] = NoList]

\* concatenateVideos(inputPaths, out, onProgress, { reencode }) up to its
\* first await: the first duration probe when re-encoding, else fs.writeFile.
BeginConcat(j, c, cam, n, out, reencode) ==
  LET d == [LogStage(c, StageConcat(cam)) EXCEPT
              !.f.cam = cam, !.f.inputs = n, !.f.output = out,
              !.f.reencode = reencode, !.f.totalDuration = 0,
              !.f.probeIdx = 0, !.f.probeFailures = 0, !.f.pending = MsgNone] IN
    IF n = 0 THEN PipelineCatch(j, d, StageConcat(cam), MsgNoInput)
    ELSE IF reencode THEN [BeginProbe(j, d, "concatProbe") EXCEPT !.f.probeIdx = 1]
    ELSE WriteList(d)

\* Mutant: the pair loop stops one pair early (i < numPairs - 1).
NextPair_SkipsLast(j, c) ==
  LET i == Len(c.f.pairPaths) + 1 IN
    IF i < Len(c.f.a)
      THEN IF findFileById(uploads.a, c.f.a[i]) /\ findFileById(uploads.b, c.f.b[i])
             THEN BeginCombine(j, [c EXCEPT !.f.inputPaths = <<c.f.a[i], c.f.b[i]>>],
                               StageCombine(i), PairPath(i))
             ELSE PipelineCatch(j, c, <<"resolve", i>>, MsgFileNotFound)
      ELSE BeginConcat(j, [c EXCEPT !.f.inputPaths = c.f.pairPaths], 0,
                       Len(c.f.pairPaths), CombinedPath, FALSE)

\* Mutant: the pair loop reads the stored ordering instead of its own lists.
NextPair_ReadsStoredOrder(j, c) ==
  LET i == Len(c.f.pairPaths) + 1 IN
    IF i <= Len(videoOrder.a)
      THEN IF i <= Len(videoOrder.b)
                /\ findFileById(uploads.a, videoOrder.a[i])
                /\ findFileById(uploads.b, videoOrder.b[i])
             THEN BeginCombine(j, [c EXCEPT !.f.inputPaths =
                                               <<videoOrder.a[i], videoOrder.b[i]>>],
                               StageCombine(i), PairPath(i))
             ELSE PipelineCatch(j, c, <<"resolve", i>>, MsgFileNotFound)
      ELSE BeginConcat(j, [c EXCEPT !.f.inputPaths = c.f.pairPaths], 0,
                       Len(c.f.pairPaths), CombinedPath, FALSE)

\* One iteration of the pair loop of processVideos, or the concatenation
\* once every pair is combined.
NextPair(j, c) ==
  LET i == Len(c.f.pairPaths) + 1 IN
    IF i <= Len(c.f.a)
      THEN IF findFileById(uploads.a, c.f.a[i]) /\ findFileById(uploads.b, c.f.b[i])
             THEN BeginCombine(j, [c EXCEPT !.f.inputPaths = <<c.f.a[i], c.f.b[i]>>],
                               StageCombine(i), PairPath(i))
             ELSE PipelineCatch(j, c, <<"resolve", i>>, MsgFileNotFound)
      ELSE BeginConcat(j, [c EXCEPT !.f.inputPaths = c.f.pairPaths], 0,
                       Len(c.f.pairPaths), CombinedPath, FALSE)

\* Mutant: the camera streams are concatenated without { reencode: true }.
ConcatCamera_StreamCopy(j, c, cam, ids, dir, out) ==
  IF \A k \in DOMAIN ids : findFileById(dir, ids[k])
    THEN BeginConcat(j, [c EXCEPT !.f.inputPaths = ids], cam, Len(ids), out, FALSE)
    ELSE PipelineCatch(j, c, <<"resolve", cam>>, MsgFileNotFound)

\* a.map(id => findFileById(dir, id)) followed by the re-encoding concatenation.
ConcatCamera(j, c, cam, ids, dir, out) ==
  IF \A k \in DOMAIN ids : findFileById(dir, ids[k])
    THEN BeginConcat(j, [c EXCEPT !.f.inputPaths = ids], cam, Len(ids), out, TRUE)
    ELSE PipelineCatch(j, c, <<"resolve", cam>>, MsgFileNotFound)

\* Mutant: a difference equal to the tolerance pads too (>= instead of >).
PadDecision_AtTolerance(durationA, durationB) ==
  LET durationDiff == IF durationA >= durationB THEN durationA - durationB
                      ELSE durationB - durationA IN
    IF durationDiff >= PadTolerance
      THEN [pad |-> TRUE, target |-> IF durationA < durationB THEN CamA ELSE CamB,
            amount |-> durationDiff]
      ELSE [pad |-> FALSE, target |-> 0, amount |-> 0]

\* The padding decision of processVideosConcatenateFirst.
PadDecision(durationA, durationB) ==
  LET durationDiff == IF durationA >= durationB THEN durationA - durationB
                      ELSE durationB - durationA IN
    IF durationDiff > PadTolerance
      THEN [pad |-> TRUE, target |-> IF durationA < durationB THEN CamA ELSE CamB,
            amount |-> durationDiff]
      ELSE [pad |-> FALSE, target |-> 0, amount |-> 0]

\* Step 3 of processVideosConcatenateFirst: combine the two final streams.
CombineStreams(j, c, pathA, pathB) ==
  BeginCombine(j, [c EXCEPT !.f.finalConcatAPath = pathA, !.f.finalConcatBPath = pathB,
                            !.f.inputPaths = <<pathA, pathB>>],
               StageCombine(0), CombinedPath)

\* After both duration probes: pad the shorter stream, or go on to combine.
AfterProbes(j, c) ==
  LET dec == PadDecision(c.f.durationA, c.f.durationB)
      d == [c EXCEPT !.f.padTarget = dec.target, !.f.paddingAmount = dec.amount,
                     !.f.finalConcatAPath = ConcatAPath,
                     !.f.finalConcatBPath = ConcatBPath] IN
    IF ~dec.pad THEN CombineStreams(j, d, ConcatAPath, ConcatBPath)
    ELSE IF dec.target = CamA THEN BeginPad(j, d, CamA, PaddedAPath)
    ELSE BeginPad(j, d, CamB, PaddedBPath)

\* The code after a resolved `await concatenateVideos(...)`.
AfterConcat(j, c) ==
  LET d == StepCompleted(j, c) IN
    IF c.f.mode = "Pairwise" THEN BeginCompress(j, d)
    ELSE IF c.f.cam = CamA
      THEN ConcatCamera(j, d, CamB, d.f.b, uploads.b, ConcatBPath)
    ELSE BeginProbe(j, LogStage(d, StageProbe(CamA)), "probeA")

\* Mutant: a concatenate-first job is marked done once its streams are combined.
AfterCombine_SkipsCompress(j, c) ==
  IF c.f.mode = "Pairwise"
    THEN NextPair(j, StepCompleted(j,
           [c EXCEPT !.f.pairPaths = Append(c.f.pairPaths, c.f.output)]))
    ELSE SetJob(j, [c EXCEPT !.f.completedSteps = c.f.completedSteps + 1, !.f.pc = "done"],
                DoneJob)

\* The code after a resolved `await combinePair(...)`.
AfterCombine(j, c) ==
  IF c.f.mode = "Pairwise"
    THEN NextPair(j, StepCompleted(j,
           [c EXCEPT !.f.pairPaths = Append(c.f.pairPaths, c.f.output)]))
    ELSE BeginCompress(j, StepCompleted(j, c))

\* Mutant: the pipeline returns after the compression without the final write.
AfterCompress_NoRecord(j, c) ==
  [c EXCEPT !.f.completedSteps = c.f.completedSteps + 1, !.f.pc = "done"]

\* The code after a resolved `await compressVideo(...)`.
AfterCompress(j, c) ==
  SetJob(j, [c EXCEPT !.f.completedSteps = c.f.completedSteps + 1, !.f.pc = "done"],
         DoneJob)

\* ------------------------------------------------------------ HTTP handlers
\* POST /order with body { a, b }, both arrays.  A reorder sent after a job
\* has been started draws on the event budget.
SetOrder(a, b) ==
  /\ ~MicrotaskPending
  /\ DOMAIN jobs = {} \/ events < MaxEvents
  /\ events' = IF DOMAIN jobs = {} THEN events ELSE events + 1
  /\ videoOrder' = [a |-> a, b |-> b]
  /\ response' = NoResponse
  /\ UNCHANGED <<jobs, pipe, files, uploads, started, inflight, failure, tmp, clock, client>>

\* Mutant: the id is returned before the job is registered (the registry
\* entry is left to the pipeline's first update).
Process_RegistersLate(concatenateFirst, room) ==
  /\ ~MicrotaskPending
  /\ ValidateProcess(videoOrder, concatenateFirst) = "ok"
  /\ room
  /\ LET jobId == Cardinality(DOMAIN pipe) + 1 IN
       /\ response' = ProcessResponse("jobId", concatenateFirst, 200, MsgNone, jobId)
       /\ pipe' = MapSet(pipe, jobId, NewFrame(videoOrder, concatenateFirst))
       /\ started' = MapSet(started, jobId, <<>>)
       /\ inflight' = MapSet(inflight, jobId, 0)
       /\ failure' = MapSet(failure, jobId, NoFailure)
  /\ UNCHANGED <<videoOrder, jobs, files, uploads, events, tmp, clock, client>>

\* POST /process: a 400 response when the validation fails; else it registers
\* the job, answers with its id, and runs the chosen pipeline function up to
\* its first await.  `room` says whether the client sends a valid request
\* in this state (the server itself never refuses a valid one).
Process(concatenateFirst, room) ==
  /\ ~MicrotaskPending
  /\ \/ /\ ValidateProcess(videoOrder, concatenateFirst) # "ok"
        /\ response' = ProcessResponse("error", concatenateFirst, 400,
                          ValidateProcess(videoOrder, concatenateFirst), NoJob)
        /\ UNCHANGED <<jobs, pipe, started, inflight, failure>>
     \/ /\ ValidateProcess(videoOrder, concatenateFirst) = "ok"
        /\ room
        /\ LET jobId == Cardinality(DOMAIN jobs) + 1 IN
             /\ jobs' = MapSet(jobs, jobId, InitialJob)
             /\ response' = ProcessResponse("jobId", concatenateFirst, 200, MsgNone, jobId)
             /\ pipe' = MapSet(pipe, jobId, NewFrame(videoOrder, concatenateFirst))
             /\ started' = MapSet(started, jobId, <<>>)
             /\ inflight' = MapSet(inflight, jobId, 0)
             /\ failure' = MapSet(failure, jobId, NoFailure)
  /\ UNCHANGED <<videoOrder, files, uploads, events, tmp, clock, client>>

\* GET /status/:jobId.
\* The handler changes nothing: it is modelled by the answer it gives in the
\* current state.
StatusResponse(reg, id) ==
  IF id \in DOMAIN reg
    THEN [code |-> 200, error |-> MsgNone, job |-> reg[id]]
    ELSE [code |-> 404, error |-> "Job not found", job |-> JobRecord(0, "none", MsgNone)]

\* Mutant: the download does not look at the job's status.
DownloadResponse_NoStatusCheck(reg, fs, id) ==
  IF id \notin DOMAIN reg
    THEN [code |-> 404, error |-> "Job not found", file |-> NoFile]
  ELSE IF fs[FinalPath] = NoFile
    THEN [code |-> 404, error |-> "File not found", file |-> NoFile]
  ELSE [code |-> 200, error |-> MsgNone, file |-> fs[FinalPath]]

\* GET /download/:jobId: serves output/final.mp4 once the job is done.
\* The handler changes nothing: it is modelled by the answer it gives in the
\* current state (the file it sends is whatever is at the path now).
DownloadResponse(reg, fs, id) ==
  IF id \notin DOMAIN reg
    THEN [code |-> 404, error |-> "Job not found", file |-> NoFile]
  ELSE IF reg[id].status # "done"
    THEN [code |-> 404, error |-> "Video not ready", file |-> NoFile]
  ELSE IF fs[FinalPath] = NoFile
    THEN [code |-> 404, error |-> "File not found", file |-> NoFile]
  ELSE [code |-> 200, error |-> MsgNone, file |-> fs[FinalPath]]

\* Mutant: the reset also empties the job registry.
Reset_ClearsJobs ==
  /\ ~MicrotaskPending
  /\ events < MaxEvents
  /\ events' = events + 1
  /\ uploads' = [a |-> {}, b |-> {}]
  /\ files' = [p \in OutputPaths |-> NoFile]
  /\ jobs' = <<>>
  /\ response' = NoResponse
  /\ UNCHANGED <<videoOrder, pipe, started, inflight, failure, tmp, clock, client>>

\* POST /reset: empties uploads/a, uploads/b and output.
Reset ==
  /\ ~MicrotaskPending
  /\ events < MaxEvents
  /\ events' = events + 1
  /\ uploads' = [a |-> {}, b |-> {}]
  /\ files' = [p \in OutputPaths |-> NoFile]
  /\ response' = NoResponse
  /\ UNCHANGED <<videoOrder, jobs, pipe, started, inflight, failure, tmp, clock, client>>

\* ----------------------------------------------------------- pipeline turns
At(j, pc) == j \in DOMAIN pipe /\ pipe[j].pc = pc /\ ~MicrotaskPending

Turn(j, c) ==
  /\ Commit(j, c)
  /\ response' = NoResponse
  /\ UNCHANGED <<videoOrder, uploads, events, clock, client>>

\* Mutant: a watchdog gives the job up at its first progress event.
ProgressTurn_Watchdog(j, percent) ==
  /\ events < MaxEvents
  /\ events' = events + 1
  /\ Commit(j, PipelineCatch(j, Cur(j), NoStage, "Timed out"))
  /\ response' = NoResponse
  /\ UNCHANGED <<videoOrder, uploads, clock, client>>

\* onProgress(percent): the registry record the callback writes, if the
\* stage's handler forwards a percent.
OnProgress(j, percent) ==
  /\ Commit(j, IF percent = Undefined THEN Cur(j)
               ELSE StageProgress(j, [Cur(j) EXCEPT !.f.reported = percent], percent))
  /\ response' = NoResponse
  /\ UNCHANGED <<videoOrder, uploads, clock, client>>

\* A progress event, drawn on the event budget.
ProgressTurn(j, percent) ==
  /\ events < MaxEvents
  /\ events' = events + 1
  /\ OnProgress(j, percent)

\* fs.mkdir settles (its failure is ignored): the pipeline's try block begins.
MkdirDone(j) ==
  /\ At(j, "mkdir")
  /\ Turn(j, IF pipe[j].mode = "Pairwise" THEN NextPair(j, Cur(j))
             ELSE ConcatCamera(j, Cur(j), CamA, pipe[j].a, uploads.a, ConcatAPath))

CombineProgress(j, raw) ==
  /\ At(j, "combine")
  /\ ProgressTurn(j, StagePercent(raw))

CombineEnd(j) ==
  /\ At(j, "combine")
  /\ Turn(j, AfterCombine(j, ToolExit(j, Cur(j), TRUE)))

CombineError(j) ==
  /\ At(j, "combine")
  /\ Turn(j, PipelineCatch(j, ToolExit(j, Cur(j), FALSE),
                           StageCombine(IF pipe[j].mode = "Pairwise"
                                        THEN Len(pipe[j].pairPaths) + 1 ELSE 0),
                           MsgCombine))

\* Mutant: a failed probe of an input rejects the concatenation.
ConcatProbeDone_FailureIsFatal(j, answer) ==
  /\ At(j, "concatProbe")
  /\ LET r == getVideoDuration(answer)
         c == [Cur(j) EXCEPT !.run = @ - 1,
                 !.f.totalDuration = IF r.ok THEN @ + r.value ELSE @,
                 !.f.probeFailures = IF r.ok THEN @ ELSE @ + 1] IN
       Turn(j, IF ~r.ok THEN PipelineCatch(j, c, StageConcat(pipe[j].cam), r.msg)
               ELSE IF c.f.probeIdx < c.f.inputs
                 THEN [BeginProbe(j, c, "concatProbe") EXCEPT !.f.probeIdx = @ + 1]
                 ELSE WriteList(c))

\* One duration probe of concatenateVideos settles; a failed probe adds nothing.
ConcatProbeDone(j, answer) ==
  /\ At(j, "concatProbe")
  /\ LET r == getVideoDuration(answer)
         c == [Cur(j) EXCEPT !.run = @ - 1,
                 !.f.totalDuration = IF r.ok THEN @ + r.value ELSE @,
                 !.f.probeFailures = IF r.ok THEN @ ELSE @ + 1] IN
       Turn(j, IF c.f.probeIdx < c.f.inputs
                 THEN [BeginProbe(j, c, "concatProbe") EXCEPT !.f.probeIdx = @ + 1]
                 ELSE WriteList(c))

\* fs.writeFile of the file list resolves: the list is in the temporary
\* directory and the tool is started.
ConcatWriteDone(j) ==
  /\ At(j, "concatWrite")
  /\ Turn(j, RunTool(j, [Cur(j) EXCEPT !.tmp[pipe[j].tempListPath] =
                                         [owner |-> j, present |-> TRUE]],
                     "concat", pipe[j].output))

\* fs.writeFile rejects, with or without having created the file: the catch
\* of concatenateVideos unlinks the list.
ConcatWriteFail(j, created) ==
  /\ At(j, "concatWrite")
  /\ Turn(j, [Cur(j) EXCEPT !.f.pc = "concatCleanup", !.f.pending = MsgPrepare,
                            !.tmp[pipe[j].tempListPath] =
                               IF created THEN [owner |-> j, present |-> TRUE] ELSE @])

ConcatProgress(j, timemark, raw) ==
  /\ At(j, "concat")
  /\ ProgressTurn(j, ConcatPercent(pipe[j].totalDuration, timemark, raw))

\* The tool's end / error event: the handler unlinks the list before settling.
ConcatEnd(j) ==
  /\ At(j, "concat")
  /\ Turn(j, [ToolExit(j, Cur(j), TRUE) EXCEPT !.f.pc = "concatCleanup"])

ConcatError(j) ==
  /\ At(j, "concat")
  /\ Turn(j, [ToolExit(j, Cur(j), FALSE) EXCEPT
                !.f.pc = "concatCleanup", !.f.pending = MsgConcat])

\* fs.unlink of the list settles: concatenateVideos resolves or rejects.
ConcatSettled(j) ==
  /\ At(j, "concatCleanup")
  /\ Turn(j, IF pipe[j].pending = MsgNone THEN AfterConcat(j, UnlinkList(Cur(j)))
             ELSE PipelineCatch(j, UnlinkList(Cur(j)), StageConcat(pipe[j].cam),
                                pipe[j].pending))

\* getVideoDuration(concatAPath) settles.
ProbeADone(j, answer) ==
  /\ At(j, "probeA")
  /\ LET r == getVideoDuration(answer)
         c == [Cur(j) EXCEPT !.run = @ - 1] IN
       Turn(j, IF r.ok
                 THEN BeginProbe(j, LogStage([c EXCEPT !.f.durationA = r.value],
                                             StageProbe(CamB)), "probeB")
                 ELSE PipelineCatch(j, c, StageProbe(CamA), r.msg))

\* getVideoDuration(concatBPath) settles.
ProbeBDone(j, answer) ==
  /\ At(j, "probeB")
  /\ LET r == getVideoDuration(answer)
         c == [Cur(j) EXCEPT !.run = @ - 1] IN
       Turn(j, IF r.ok THEN AfterProbes(j, [c EXCEPT !.f.durationB = r.value])
               ELSE PipelineCatch(j, c, StageProbe(CamB), r.msg))

\* Pad progress is only logged.
PadProgress(j, raw) ==
  /\ At(j, "pad")
  /\ ProgressTurn(j, Undefined)

\* Mutant: the Pad stage counts as a step.
PadEnd_CountsStep(j) ==
  /\ At(j, "pad")
  /\ LET c == StepCompleted(j, ToolExit(j, Cur(j), TRUE)) IN
       Turn(j, IF pipe[j].padTarget = CamA
                 THEN CombineStreams(j, c, PaddedAPath, pipe[j].finalConcatBPath)
                 ELSE CombineStreams(j, c, pipe[j].finalConcatAPath, PaddedBPath))

\* Mutant: the Combine stage is given the two unpadded files.
PadEnd_UsesOriginals(j) ==
  /\ At(j, "pad")
  /\ LET c == ToolExit(j, Cur(j), TRUE) IN
       Turn(j, CombineStreams(j, c, pipe[j].finalConcatAPath, pipe[j].finalConcatBPath))

PadEnd(j) ==
  /\ At(j, "pad")
  /\ LET c == ToolExit(j, Cur(j), TRUE) IN
       Turn(j, IF pipe[j].padTarget = CamA
                 THEN CombineStreams(j, c, PaddedAPath, pipe[j].finalConcatBPath)
                 ELSE CombineStreams(j, c, pipe[j].finalConcatAPath, PaddedBPath))

PadError(j) ==
  /\ At(j, "pad")
  /\ Turn(j, PipelineCatch(j, ToolExit(j, Cur(j), FALSE),
                           StagePad(pipe[j].padTarget), MsgPad))

CompressProgress(j, raw) ==
  /\ At(j, "compress")
  /\ ProgressTurn(j, StagePercent(raw))

CompressEnd(j) ==
  /\ At(j, "compress")
  /\ Turn(j, AfterCompress(j, ToolExit(j, Cur(j), TRUE)))

CompressError(j) ==
  /\ At(j, "compress")
  /\ Turn(j, PipelineCatch(j, ToolExit(j, Cur(j), FALSE), StageCompress, MsgCompress))

\* The catch handler POST /process attached to the pipeline's promise.
HandlerCatch(j) ==
  /\ j \in DOMAIN pipe
  /\ pipe[j].pc = "rejected"
  /\ Turn(j, SetJob(j, [Cur(j) EXCEPT !.f.pc = "failed"], HandlerCatchJob(pipe[j].error)))

\* The clock advances to its next reading.
Tick ==
  /\ ~MicrotaskPending
  /\ clock < MaxClock
  /\ clock' = clock + 1
  /\ response' = NoResponse
  /\ UNCHANGED <<videoOrder, jobs, pipe, files, uploads, started, inflight, failure,
                 events, tmp, client>>

\* The turns of job j's pipeline, for the events the tool may deliver.
PipelineTurn(j, percents, timemarks, segmentAnswers, streamAnswers) ==
  \/ MkdirDone(j)
  \/ \E raw \in percents : CombineProgress(j, raw)
  \/ CombineEnd(j)
  \/ CombineError(j)
  \/ \E answer \in segmentAnswers : ConcatProbeDone(j, answer)
  \/ ConcatWriteDone(j)
  \/ \E created \in BOOLEAN : ConcatWriteFail(j, created)
  \/ \E t \in timemarks, raw \in percents : ConcatProgress(j, t, raw)
  \/ ConcatEnd(j)
  \/ ConcatError(j)
  \/ ConcatSettled(j)
  \/ \E answer \in streamAnswers : ProbeADone(j, answer)
  \/ \E answer \in streamAnswers : ProbeBDone(j, answer)
  \/ \E raw \in percents : PadProgress(j, raw)
  \/ PadEnd(j)
  \/ PadError(j)
  \/ \E raw \in percents : CompressProgress(j, raw)
  \/ CompressEnd(j)
  \/ CompressError(j)
  \/ HandlerCatch(j)

\* The server from start-up through its first job, with every request and
\* every tool event.
Next ==
  \/ \E a, b \in OrderLists : SetOrder(a, b)
  \/ \E cf \in BOOLEAN : Process(cf, DOMAIN jobs = {})
  \/ Reset
  \/ \E j \in JobIds :
       PipelineTurn(j, RawPercents, Timemarks, SegmentProbeAnswers, StreamProbeAnswers)

Spec == Init /\ [][Next]_vars

\* Concurrent jobs on one stored ordering (one segment per camera, which both
\* modes accept).
InitConc == InitWith([a |-> <<MaxLen>>, b |-> <<MaxLen>>])

NextConc ==
  \/ \E cf \in BOOLEAN : Process(cf, Cardinality(DOMAIN jobs) < MaxConcurrent)
  \/ Tick
  \/ \E j \in JobIds :
       PipelineTurn(j, {405}, {<<0, 0, 30>>}, {ProbeDuration(60)},
                    {ProbeError, ProbeDuration(60), ProbeDuration(70)})

SpecConc == InitConc /\ [][NextConc]_vars

\* One concatenate-first job whose two concatenated streams may have any of
\* the durations of StreamDurations.
InitPad == InitWith([a |-> <<MaxLen>>, b |-> <<MaxLen>>])

NextPad ==
  \/ Process(TRUE, DOMAIN jobs = {})
  \/ \E j \in JobIds :
       PipelineTurn(j, {405}, {<<0, 0, 30>>}, {ProbeDuration(60)}, StreamDurations)

SpecPad == InitPad /\ [][NextPad]_vars

\* One concatenate-first job with several segments on camera A, with every
\* probe answer and with timemarks that reach and pass the summed durations.
ConcatTimemarks == Timemarks \cup {<<0, 1, 0>>, <<0, 2, 0>>}

InitConcat == InitWith([a |-> [k \in 1..MaxLen |-> k], b |-> <<MaxLen>>])

NextConcat ==
  \/ Process(TRUE, DOMAIN jobs = {})
  \/ \E j \in JobIds :
       PipelineTurn(j, RawPercents, ConcatTimemarks,
                    SegmentProbeAnswers \cup {ProbeNullDuration},
                    StreamProbeAnswers \cup {ProbeNullDuration})

SpecConcat == InitConcat /\ [][NextConcat]_vars

\* A job on which no stage and no probe fails and every stage passes percents
\* to onProgress that are within 0..100 and never lower than the one before.
GoodPercents == {405, 800, 1000}
GoodTimemarks == {<<>>, <<0, 0, 30>>, <<0, 1, 0>>, <<0, 2, 0>>}
GoodDurations == {ProbeDuration(60), ProbeDuration(70)}

SteadyProgress(j, timemark, raw) ==
  /\ j \in DOMAIN pipe
  /\ ~MicrotaskPending
  /\ pipe[j].pc \in {"combine", "concat", "compress"}
  /\ LET percent == IF pipe[j].pc = "concat"
                      THEN ConcatPercent(pipe[j].totalDuration, timemark, raw)
                      ELSE StagePercent(raw) IN
       /\ percent \in 0..100
       /\ percent >= pipe[j].reported
       /\ OnProgress(j, percent)
  /\ UNCHANGED events

GoodTurn(j) ==
  \/ MkdirDone(j)
  \/ \E t \in GoodTimemarks, raw \in GoodPercents : SteadyProgress(j, t, raw)
  \/ CombineEnd(j)
  \/ \E answer \in GoodDurations : ConcatProbeDone(j, answer)
  \/ ConcatWriteDone(j)
  \/ ConcatEnd(j)
  \/ ConcatSettled(j)
  \/ \E answer \in GoodDurations : ProbeADone(j, answer)
  \/ \E answer \in GoodDurations : ProbeBDone(j, answer)
  \/ \E raw \in GoodPercents : PadProgress(j, raw)
  \/ PadEnd(j)
  \/ CompressEnd(j)

InitGood == InitWith([a |-> [k \in 1..MaxLen |-> k], b |-> [k \in 1..MaxLen |-> k]])

NextGood ==
  \/ \E cf \in BOOLEAN : Process(cf, DOMAIN jobs = {})
  \/ \E j \in JobIds : GoodTurn(j)

SpecGood == InitGood /\ [][NextGood]_vars

\* One job of either mode whose tools, probes and file operations all
\* deliver their result: every continuation of the pipeline that is waiting
\* for a settled promise or a terminal event is eventually run.  Progress
\* events and requests carry no such obligation.
LiveProbeAnswers == {ProbeError, ProbeDuration(60), ProbeDuration(70)}

Settle(j) ==
  \/ MkdirDone(j)
  \/ CombineEnd(j)
  \/ CombineError(j)
  \/ \E answer \in LiveProbeAnswers : ConcatProbeDone(j, answer)
  \/ ConcatWriteDone(j)
  \/ \E created \in BOOLEAN : ConcatWriteFail(j, created)
  \/ ConcatEnd(j)
  \/ ConcatError(j)
  \/ ConcatSettled(j)
  \/ \E answer \in LiveProbeAnswers : ProbeADone(j, answer)
  \/ \E answer \in LiveProbeAnswers : ProbeBDone(j, answer)
  \/ PadEnd(j)
  \/ PadError(j)
  \/ CompressEnd(j)
  \/ CompressError(j)
  \/ HandlerCatch(j)

NextLive ==
  \/ \E cf \in BOOLEAN : Process(cf, DOMAIN jobs = {})
  \/ Reset
  \/ \E j \in JobIds :
       PipelineTurn(j, {405}, {<<0, 0, 30>>}, LiveProbeAnswers, LiveProbeAnswers)

SpecLive ==
  /\ InitGood
  /\ [][NextLive]_vars
  /\ \A j \in JobIds : WF_vars(Settle(j))

\* ------------------------------------------------------------------ client
\* One action is one event of the browser: a click, a timer tick, or the
\* continuation after a fetch has answered, followed by the render it causes
\* and the effects of that render.

\* The polling effect, with dependencies [jobId, status]: when either has
\* changed the cleanup clears the interval, and the effect, if a job id is
\* held and the status is processing, polls once and sets a new interval.
useEffect(old, new) ==
  IF new.jobId = old.jobId /\ new.status = old.status THEN new
  ELSE LET cleaned == [new EXCEPT !.timer = NoJob] IN
         IF cleaned.jobId = NoJob \/ cleaned.status # "processing" THEN cleaned
         ELSE [cleaned EXCEPT !.timer = cleaned.jobId, !.polls[cleaned.jobId] = @ + 1]

Render(c) ==
  /\ client' = useEffect(client, c)
  /\ \A j \in JobIds : client'.polls[j] <= MaxPolls
  /\ response' = NoResponse

\* The catch block of handleProcess.
ProcessFailed(c, msg) ==
  [c EXCEPT !.error = msg, !.isProcessing = FALSE, !.status = "error", !.pc = "ready"]

\* handleProcess up to `await setOrder(orderA, orderB)`; the button is
\* enabled for non-empty lists of equal length while nothing is processed.
HandleProcess(orderA, orderB) ==
  /\ client.pc = "ready"
  /\ ~client.isProcessing
  /\ Len(orderA) > 0
  /\ Len(orderA) = Len(orderB)
  /\ Render([client EXCEPT !.isProcessing = TRUE, !.progress = 0, !.downloadUrl = NoJob,
                           !.error = MsgNone, !.status = "processing",
                           !.pc = "ordering", !.orderA = orderA, !.orderB = orderB])
  /\ UNCHANGED <<videoOrder, jobs, pipe, files, uploads, started, inflight, failure,
                 events, tmp, clock>>

\* The JSON body setOrder sends.
OrderBody(orderA, orderB) == [orderA |-> orderA, orderB |-> orderB]

\* POST /order for any JSON body: 400 unless a and b are both arrays.
ErrOrderFormat == "Invalid order format. Expected { a: [], b: [] }"
OrderAnswer(body) ==
  IF "a" \in DOMAIN body /\ "b" \in DOMAIN body
    THEN [code |-> 200, error |-> MsgNone, order |-> [a |-> body.a, b |-> body.b]]
    ELSE [code |-> 400, error |-> ErrOrderFormat, order |-> videoOrder]

\* The server has handled the order request and setOrder returns or throws;
\* handleProcess goes on to `await startProcess({ config })` or to its catch.
OrderDone(answer) ==
  /\ client.pc = "ordering"
  /\ ~MicrotaskPending
  /\ videoOrder' = answer.order
  /\ Render(IF answer.code = 200 THEN [client EXCEPT !.pc = "starting"]
            ELSE ProcessFailed(client, answer.error))
  /\ UNCHANGED <<jobs, pipe, files, uploads, started, inflight, failure, events, tmp, clock>>

\* startProcess returns { jobId } of a job the server has registered, or throws.
StartDone(ok) ==
  /\ client.pc = "starting"
  /\ IF ok
       THEN /\ Cardinality(DOMAIN jobs) < MaxConcurrent
            /\ jobs' = MapSet(jobs, Cardinality(DOMAIN jobs) + 1, InitialJob)
            /\ Render([client EXCEPT !.jobId = Cardinality(DOMAIN jobs) + 1, !.pc = "ready"])
       ELSE /\ jobs' = jobs
            /\ Render(ProcessFailed(client, "Process failed to start"))
  /\ UNCHANGED <<videoOrder, pipe, files, uploads, started, inflight, failure, events,
                 tmp, clock>>

\* setInterval(pollStatus, 1000) fires: one more getStatus request.
IntervalFires ==
  /\ client.timer # NoJob
  /\ client.polls[client.timer] < MaxPolls
  /\ client' = [client EXCEPT !.polls[client.timer] = @ + 1]
  /\ response' = NoResponse
  /\ UNCHANGED <<videoOrder, jobs, pipe, files, uploads, started, inflight, failure,
                 events, tmp, clock>>

\* A getStatus request that got no answer from the server.
GetStatusFailed == [code |-> 0, error |-> "Failed to get status", job |-> JobRecord(0, "none", MsgNone)]

\* The poll ends the polling: the interval is cleared.
PollEnded(c, j) == [c EXCEPT !.isProcessing = FALSE, !.timer = NoJob, !.settled = @ \cup {j}]

\* pollStatus after `await getStatus(jobId)` for job j, with the answer.
PollDone(j, answer) ==
  /\ client.polls[j] > 0
  /\ LET c == [client EXCEPT !.polls[j] = @ - 1]
         d == [c EXCEPT !.progress = answer.job.progress] IN
       Render(IF answer.code # 200
                THEN PollEnded([c EXCEPT !.error = answer.error, !.status = "error"], j)
              ELSE IF answer.job.status = "done"
                THEN PollEnded([d EXCEPT !.status = "done", !.downloadUrl = j,
                                         !.doneSeen = @ \cup {j}], j)
              ELSE IF answer.job.status = "error"
                THEN PollEnded([d EXCEPT !.status = "error",
                                         !.error = IF answer.job.error = MsgNone
                                                     THEN "Processing failed"
                                                     ELSE answer.job.error], j)
              ELSE d)
  /\ UNCHANGED <<videoOrder, jobs, pipe, files, uploads, started, inflight, failure,
                 events, tmp, clock>>

\* handleReset after `await reset()`; the button is disabled while processing.
HandleReset(ok) ==
  /\ client.pc = "ready"
  /\ ~client.isProcessing
  /\ Render(IF ok
              THEN [client EXCEPT !.progress = 0, !.downloadUrl = NoJob, !.error = MsgNone,
                                  !.status = "idle", !.isProcessing = FALSE,
                                  !.jobId = NoJob, !.timer = NoJob]
              ELSE [client EXCEPT !.error = "Reset failed"])
  /\ UNCHANGED <<videoOrder, jobs, pipe, files, uploads, started, inflight, failure,
                 events, tmp, clock>>

\* The server, seen through its answers: a job it runs ends done or in error.
ServerSettles(j, record) ==
  /\ j \in DOMAIN jobs
  /\ jobs[j].status = "processing"
  /\ jobs' = [jobs EXCEPT ![j] = record]
  /\ response' = NoResponse
  /\ UNCHANGED <<videoOrder, pipe, files, uploads, started, inflight, failure, events,
                 tmp, clock, client>>

\* The client against a server that may accept or refuse each request.
NextClient ==
  \/ \E orderA, orderB \in OrderLists : HandleProcess(orderA, orderB)
  \/ \E answer \in {OrderAnswer([a |-> client.orderA, b |-> client.orderB]),
                     OrderAnswer(OrderBody(client.orderA, client.orderB))} :
       OrderDone(answer)
  \/ \E ok \in BOOLEAN : StartDone(ok)
  \/ IntervalFires
  \/ \E j \in JobIds : \E answer \in {StatusResponse(jobs, j), GetStatusFailed} :
       PollDone(j, answer)
  \/ \E ok \in BOOLEAN : HandleReset(ok)
  \/ \E j \in JobIds : \E record \in {DoneJob, JobRecord(0, "error", MsgCompress)} :
       ServerSettles(j, record)

SpecClient == Init /\ [][NextClient]_vars

\* The client's order request against the server of process.js.
NextOrder ==
  \/ Next
  \/ \E orderA, orderB \in OrderLists : HandleProcess(orderA, orderB)
  \/ OrderDone(OrderAnswer(OrderBody(client.orderA, client.orderB)))

SpecOrder == Init /\ [][NextOrder]_vars

\* ================================================================== claims
IsPrefix(s, t) == Len(s) <= Len(t) /\ \A k \in 1..Len(s) : s[k] = t[k]
NoDuplicates(s) == \A x, y \in 1..Len(s) : x # y => s[x] # s[y]
Terminal(status) == status \in {"done", "error"}

\* C1: the progress values written to a job's registry record never decrease.
C1_ProgressNonDecreasing ==
  [][\A j \in DOMAIN jobs : jobs'[j].progress >= jobs[j].progress]_vars

\* C2: after a failed Combine stage the job ends with status error and with
\* the progress that was recorded just before the failure.
C2_CombineFailureKeepsProgress ==
  \A j \in DOMAIN pipe :
    (pipe[j].pc = "failed" /\ failure[j].stage[1] = "combine")
      => /\ jobs[j].status = "error"
         /\ jobs[j].progress = failure[j].before

\* C3: status only goes from processing to done or error, and a record whose
\* status is done or error is never written again with different contents.
C3_TerminalRecordsFrozen ==
  [][\A j \in DOMAIN jobs :
       /\ Terminal(jobs[j].status) => jobs'[j] = jobs[j]
       /\ jobs'[j].status \in {"processing", "done", "error"}]_vars

\* C4: a pair-by-pair process request on lists of different lengths gets the
\* 400 validation answer, adds no job and starts nothing; no pair-by-pair job
\* on lists of different lengths ever exists.
C4_UnequalPairwiseRejected ==
  [][/\ (/\ response'.kind # "none"
         /\ ~response'.concatenateFirst
         /\ Len(videoOrder.a) # Len(videoOrder.b))
        => /\ response'.kind = "error"
           /\ response'.code = 400
           /\ UNCHANGED <<jobs, pipe, started, inflight, files>>
     /\ \A j \in DOMAIN pipe' :
          pipe'[j].mode = "Pairwise" => Len(pipe'[j].a) = Len(pipe'[j].b)]_vars

C4_Witness ==
  /\ response.kind = "error"
  /\ ~response.concatenateFirst
  /\ response.error = ErrLength
  /\ Len(videoOrder.a) # Len(videoOrder.b)

\* C5: a process request while either stored list is empty gets the 400
\* validation answer in both modes, adds no job and starts nothing; no job on
\* an empty list ever exists.
C5_EmptyStreamRejected ==
  [][/\ (/\ response'.kind # "none"
         /\ (Len(videoOrder.a) = 0 \/ Len(videoOrder.b) = 0))
        => /\ response'.kind = "error"
           /\ response'.code = 400
           /\ UNCHANGED <<jobs, pipe, started, inflight, files>>
     /\ \A j \in DOMAIN pipe' : Len(pipe'[j].a) > 0 /\ Len(pipe'[j].b) > 0]_vars

C5_Witness ==
  /\ response.kind = "error"
  /\ response.concatenateFirst
  /\ response.error = ErrNoOrder
  /\ Len(videoOrder.a) > 0
  /\ Len(videoOrder.b) = 0

\* C6: when POST /process has answered with a job id, the job is registered
\* with status processing and progress 0, a status request for that id finds
\* it, and no stage of the job has started or completed.
C6_AcceptedJobRegistered ==
  response.kind = "jobId"
    => /\ response.jobId \in DOMAIN pipe
       /\ StatusResponse(jobs, response.jobId).code = 200
       /\ StatusResponse(jobs, response.jobId).job = JobRecord(0, "processing", MsgNone)
       /\ pipe[response.jobId].completedSteps = 0
       /\ started[response.jobId] = <<>>
       /\ inflight[response.jobId] = 0

C6_Witness ==
  /\ response.kind = "jobId"
  /\ response.concatenateFirst
  /\ StatusResponse(jobs, response.jobId).job.status = "processing"

\* The error text each kind of stage fails with.
StageMessages(kind) ==
  CASE kind = "combine" -> {MsgCombine}
    [] kind = "concat" -> {MsgConcat, MsgPrepare, MsgNoInput}
    [] kind = "pad" -> {MsgPad}
    [] kind = "compress" -> {MsgCompress}
    [] kind = "probe" -> {MsgProbe, MsgNoDuration}
    [] kind = "resolve" -> {MsgFileNotFound}
    [] OTHER -> {}

\* C7: once a stage of a job has failed, the job has status error with the
\* failing stage's message, no tool of the job is running, no stage has been
\* started since the failure and none was started twice.
C7_FailureAbortsJob ==
  \A j \in DOMAIN pipe :
    /\ (pipe[j].pc \in {"rejected", "failed"}) <=> (failure[j].stage # NoStage)
    /\ failure[j].stage # NoStage
         => /\ jobs[j].status = "error"
            /\ jobs[j].error = failure[j].msg
            /\ failure[j].msg \in StageMessages(failure[j].stage[1])
            /\ Len(started[j]) = failure[j].count
            /\ inflight[j] = 0
            /\ NoDuplicates(started[j])

C7_Witness ==
  \E j \in DOMAIN pipe :
    /\ pipe[j].pc = "failed"
    /\ failure[j].stage[1] = "resolve"
    /\ Len(started[j]) >= 1

\* The stage order of each pipeline (pairs are numbered from 1).
PairwiseStages(n) ==
  [k \in 1..(n + 2) |->
     IF k <= n THEN StageCombine(k)
     ELSE IF k = n + 1 THEN StageConcat(0) ELSE StageCompress]
ConcatFirstStages(padTarget) ==
  <<StageConcat(CamA), StageConcat(CamB), StageProbe(CamA), StageProbe(CamB)>>
    \o (IF padTarget = 0 THEN <<>> ELSE <<StagePad(padTarget)>>)
    \o <<StageCombine(0), StageCompress>>
ExpectedStages(f) ==
  IF f.mode = "Pairwise" THEN PairwiseStages(Len(f.a)) ELSE ConcatFirstStages(f.padTarget)

\* C8: a job never has two tool processes running, the stages it has started
\* are an initial part of its pipeline's stage order, and a job that is done
\* has started every stage of that order.
C8_StagesInOrder ==
  \A j \in DOMAIN pipe :
    /\ inflight[j] \in {0, 1}
    /\ IsPrefix(started[j], ExpectedStages(pipe[j]))
    /\ pipe[j].pc = "done" => started[j] = ExpectedStages(pipe[j])
    /\ pipe[j].pc \in {"mkdir", "concatWrite", "concatCleanup", "done", "rejected", "failed"}
         => inflight[j] = 0

C8_Witness ==
  \E j \in DOMAIN pipe :
    /\ pipe[j].pc = "done"
    /\ pipe[j].mode = "ConcatenateFirst"
    /\ pipe[j].padTarget = CamA
    /\ Len(started[j]) = 7

\* C9: a path one job has written is never written by another job.
C9_OutputPathsPerJob ==
  [][\A p \in OutputPaths :
       files[p].owner # NoJob => files'[p].owner = files[p].owner]_vars

\* C10: a download for a job that is done sends the file that job's own
\* Compress stage wrote, whole.
C10_DownloadServesOwnOutput ==
  \A j \in DOMAIN jobs :
    jobs[j].status = "done"
      => /\ DownloadResponse(jobs, files, j).code = 200
         /\ DownloadResponse(jobs, files, j).file = [owner |-> j, complete |-> TRUE]

\* C11: a pair-by-pair job on N pairs has totalSteps = N + 2; when the
\* Combine of a pair completes, completedSteps is the number of pairs combined
\* so far and the recorded progress is round(completedSteps / totalSteps * 100);
\* a progress event of a running stage that forwards percent p records
\* round((completedSteps + p / 100) / totalSteps * 100).
C11_PairwiseProgress ==
  [][\A j \in DOMAIN pipe :
       pipe[j].mode = "Pairwise"
         => LET cs == pipe[j].completedSteps
                ts == pipe[j].totalSteps IN
              /\ ts = Len(pipe[j].a) + 2
              /\ pipe'[j].totalSteps = ts
              /\ CombineEnd(j)
                   => /\ pipe'[j].completedSteps = Len(pipe[j].pairPaths) + 1
                      /\ pipe'[j].completedSteps = cs + 1
                      /\ jobs'[j].progress = Round((cs + 1) * 100, ts)
              /\ \A raw \in RawPercents :
                   (Truthy(raw) /\ (CombineProgress(j, raw) \/ CompressProgress(j, raw)))
                     => /\ jobs'[j].progress = Round(cs * 100 + Round(raw, 10), ts)
                        /\ pipe'[j].completedSteps = cs
              /\ \A raw \in RawPercents, t \in Timemarks :
                   (Truthy(raw) /\ ConcatProgress(j, t, raw))
                     => /\ jobs'[j].progress = Round(cs * 100 + Min(100, Round(raw, 10)), ts)
                        /\ pipe'[j].completedSteps = cs]_vars

C11_Witness ==
  \E j \in DOMAIN pipe :
    /\ pipe[j].mode = "Pairwise"
    /\ pipe[j].pc = "combine"
    /\ pipe[j].totalSteps = 4
    /\ pipe[j].completedSteps = 1
    /\ jobs[j].progress = 35

\* C12: a concatenate-first job has totalSteps = 4 whatever the lengths of
\* the two lists; the progress recorded when the concatenation of camera A,
\* the concatenation of camera B and the Combine complete is 25, 50 and 75,
\* and 100 when the job completes.
C12_ConcatFirstFourSteps ==
  [][\A j \in DOMAIN pipe :
       pipe[j].mode = "ConcatenateFirst"
         => /\ pipe[j].totalSteps = 4
            /\ (ConcatSettled(j) /\ pipe[j].pending = MsgNone /\ pipe[j].cam = CamA)
                 => jobs'[j].progress = 25
            /\ (ConcatSettled(j) /\ pipe[j].pending = MsgNone /\ pipe[j].cam = CamB)
                 => jobs'[j].progress = 50
            /\ CombineEnd(j) => jobs'[j].progress = 75
            /\ CompressEnd(j) => jobs'[j] = JobRecord(100, "done", MsgNone)]_vars

C12_Witness ==
  \E j \in DOMAIN pipe :
    /\ pipe[j].mode = "ConcatenateFirst"
    /\ Len(pipe[j].a) # Len(pipe[j].b)
    /\ pipe[j].pc = "done"
    /\ jobs[j].progress = 100

\* C13: once both stream durations are probed, a Pad stage is started if and
\* only if they differ by more than 5 seconds; the stream padded is the
\* strictly shorter one and the padding amount is the difference.
C13_PaddingDecision ==
  \A j \in DOMAIN pipe :
    (pipe[j].mode = "ConcatenateFirst" /\ Len(started[j]) >= 5)
      => LET dA == pipe[j].durationA
             dB == pipe[j].durationB
             padded == { k \in {CamA, CamB} :
                           \E n \in 1..Len(started[j]) : started[j][n] = StagePad(k) } IN
           /\ (padded # {}) <=> (dA - dB > 5 \/ dB - dA > 5)
           /\ CamA \in padded
                => /\ dA < dB
                   /\ pipe[j].paddingAmount = dB - dA
                   /\ started[j][5] = StagePad(CamA)
           /\ CamB \in padded
                => /\ dB < dA
                   /\ pipe[j].paddingAmount = dA - dB
                   /\ started[j][5] = StagePad(CamB)
           /\ padded = {} => started[j][5] = StageCombine(0)

C13_Witness ==
  \E j \in DOMAIN pipe :
    /\ pipe[j].durationA = 65
    /\ pipe[j].durationB = 60
    /\ Len(started[j]) >= 5
    /\ started[j][5] = StageCombine(0)

\* C14: when the duration probe of either concatenated stream fails, the
\* job gets status error with the probe's message in that same turn and starts
\* nothing; a job whose probe has failed keeps status error and never has a
\* Pad, Combine or Compress stage among the stages it started.
C14_ProbeFailureIsFatal ==
  [][\A j \in DOMAIN pipe :
       /\ \A answer \in StreamProbeAnswers :
            ((answer.err \/ answer.duration = Undefined)
               /\ (ProbeADone(j, answer) \/ ProbeBDone(j, answer)))
              => /\ jobs'[j].status = "error"
                 /\ jobs'[j].error \in {MsgProbe, MsgNoDuration}
                 /\ pipe'[j].pc = "rejected"
                 /\ started'[j] = started[j]
                 /\ inflight'[j] = 0
       /\ failure[j].stage[1] = "probe"
            => /\ jobs'[j].status = "error"
               /\ started'[j] = started[j]
               /\ \A n \in 1..Len(started[j]) :
                    started[j][n][1] \notin {"pad", "combine", "compress"}]_vars

C14_Witness ==
  \E j \in DOMAIN pipe :
    /\ pipe[j].pc = "failed"
    /\ failure[j].stage = StageProbe(CamB)
    /\ failure[j].msg = MsgNoDuration
    /\ started[j] =
         <<StageConcat(CamA), StageConcat(CamB), StageProbe(CamA), StageProbe(CamB)>>

\* C15: while a concatenation of a pair-by-pair job is under way it runs in
\* stream-copy mode and probes no input; every concatenation of a
\* concatenate-first job runs in re-encode mode.
C15_ReencodeByMode ==
  \A j \in DOMAIN pipe :
    pipe[j].pc \in {"concatProbe", "concatWrite", "concat", "concatCleanup"}
      => /\ pipe[j].reencode = (pipe[j].mode = "ConcatenateFirst")
         /\ pipe[j].pc = "concatProbe" => pipe[j].mode = "ConcatenateFirst"
         /\ pipe[j].mode = "Pairwise" => pipe[j].totalDuration = 0

C15_Witness ==
  \E j \in DOMAIN pipe :
    /\ pipe[j].mode = "Pairwise"
    /\ pipe[j].pc = "concat"
    /\ inflight[j] = 1
    /\ ~pipe[j].reencode

\* C16: every job's recorded progress is between 0 and 100.
C16_ProgressInRange ==
  \A j \in DOMAIN jobs : jobs[j].progress \in 0..100

\* C17: once a status request for a job answers status error with a message,
\* it answers status error with that message ever after.
C17_ErrorAnswerIsStable ==
  [][\A j \in DOMAIN jobs :
       StatusResponse(jobs, j).job.status = "error"
         => /\ StatusResponse(jobs', j).code = 200
            /\ StatusResponse(jobs', j).job.status = "error"
            /\ StatusResponse(jobs', j).job.error = StatusResponse(jobs, j).job.error]_vars

C17_Witness ==
  \E j \in DOMAIN pipe :
    /\ pipe[j].pc = "failed"
    /\ events = MaxEvents
    /\ StatusResponse(jobs, j).job.status = "error"
    /\ StatusResponse(jobs, j).job.error = MsgCompress

\* C18: a download for an unknown id answers "Job not found"; for a job
\* whose status is processing or error it answers "Video not ready" and sends
\* no file; a file is sent only for a job whose status is done.
C18_DownloadOnlyWhenDone ==
  \A id \in JobIds \cup {NoJob} :
    LET r == DownloadResponse(jobs, files, id) IN
      /\ id \notin DOMAIN jobs
           => r.code = 404 /\ r.error = "Job not found" /\ r.file = NoFile
      /\ (id \in DOMAIN jobs /\ jobs[id].status \in {"processing", "error"})
           => r.code = 404 /\ r.error = "Video not ready" /\ r.file = NoFile
      /\ (r.code = 200 \/ r.file # NoFile)
           => id \in DOMAIN jobs /\ jobs[id].status = "done"

C18_Witness ==
  \E j \in DOMAIN jobs :
    /\ jobs[j].status = "error"
    /\ files[FinalPath] # NoFile
    /\ DownloadResponse(jobs, files, j).error = "Video not ready"

C20_ConcatFirstAcceptsUnequal ==
  [][(/\ response'.kind # "none"
      /\ response'.concatenateFirst
      /\ Len(videoOrder.a) > 0
      /\ Len(videoOrder.b) > 0)
       => /\ response'.kind = "jobId"
          /\ response'.jobId \in DOMAIN jobs' \ DOMAIN jobs
          /\ jobs'[response'.jobId] = JobRecord(0, "processing", MsgNone)
          /\ response'.jobId \in DOMAIN pipe' \ DOMAIN pipe
          /\ pipe'[response'.jobId].mode = "ConcatenateFirst"
          /\ pipe'[response'.jobId].a = videoOrder.a
          /\ pipe'[response'.jobId].b = videoOrder.b]_vars

C20_Witness ==
  \E j \in DOMAIN pipe :
    /\ pipe[j].mode = "ConcatenateFirst"
    /\ Len(pipe[j].a) # Len(pipe[j].b)
    /\ response.kind = "jobId"
    /\ response.jobId = j
    /\ jobs[j].status = "processing"

C22_RawPercentAfterProbeFailure ==
  [][\A j \in DOMAIN pipe : \A t \in ConcatTimemarks, raw \in RawPercents :
       (ConcatProgress(j, t, raw) /\ pipe[j].reencode /\ pipe[j].probeFailures > 0)
         => jobs'[j] =
              IF Truthy(raw)
                THEN JobRecord(Round(pipe[j].completedSteps * 100 + Min(100, Round(raw, 10)),
                                     pipe[j].totalSteps), "processing", MsgNone)
                ELSE jobs[j]]_vars

\* C23: from the completion of the concatenation of camera B until the
\* Combine stage is started a concatenate-first job has completedSteps = 2
\* and recorded progress 50, whether or not a Pad stage runs; Combine runs at
\* completedSteps = 2 and Compress at completedSteps = 3, of 4.
C23_PadIsNoStep ==
  [][\A j \in DOMAIN pipe :
       pipe[j].mode = "ConcatenateFirst"
         => /\ pipe[j].pc \in {"probeA", "probeB", "pad"}
                 => /\ pipe[j].completedSteps = 2
                    /\ jobs[j] = JobRecord(50, "processing", MsgNone)
            /\ (pipe[j].pc = "pad" /\ pipe'[j].pc # "rejected")
                 => /\ jobs'[j] = jobs[j]
                    /\ pipe'[j].completedSteps = 2
            /\ pipe[j].pc = "combine" => pipe[j].completedSteps = 2
            /\ pipe[j].pc = "compress" => pipe[j].completedSteps = 3
            /\ pipe[j].totalSteps = 4]_vars

C23_Witness ==
  \E j \in DOMAIN pipe :
    /\ pipe[j].pc = "combine"
    /\ pipe[j].padTarget = CamB
    /\ pipe[j].completedSteps = 2
    /\ jobs[j].progress = 50
    /\ events = MaxEvents

\* C24: as long as a tool process of a job is running (its terminal event
\* has not been delivered) the job's status is processing and its pipeline
\* has not failed, whatever else happens.
C24_NoTimeout ==
  \A j \in DOMAIN pipe :
    inflight[j] > 0
      => /\ jobs[j].status = "processing"
         /\ failure[j] = NoFailure
         /\ pipe[j].pc \in {"combine", "concatProbe", "concat", "probeA", "probeB",
                             "pad", "compress"}

C24_Witness ==
  \E j \in DOMAIN pipe :
    /\ inflight[j] = 1
    /\ pipe[j].pc = "compress"
    /\ events = MaxEvents
    /\ uploads.a = {}
    /\ jobs[j].status = "processing"

\* C25: a failed duration probe of an input never fails the concatenation:
\* while the inputs are probed and the tool runs the job is processing, the
\* tool is run whatever the probes answered, and a failed concatenation
\* carries the message of the tool or of the file list, never a probe's.
C25_SegmentProbeFailureNotFatal ==
  \A j \in DOMAIN pipe :
    /\ pipe[j].pc \in {"concatProbe", "concatWrite", "concat"}
         => /\ jobs[j].status = "processing"
            /\ failure[j] = NoFailure
            /\ pipe[j].inputs = Len(IF pipe[j].cam = CamA THEN pipe[j].a ELSE pipe[j].b)
    /\ failure[j].stage[1] = "concat"
         => failure[j].msg \in {MsgConcat, MsgPrepare}
    /\ pipe[j].probeFailures <= pipe[j].inputs

C25_Witness ==
  \E j \in DOMAIN pipe :
    /\ pipe[j].cam = CamA
    /\ pipe[j].probeFailures = pipe[j].inputs
    /\ pipe[j].inputs > 1
    /\ pipe[j].pc = "concatCleanup"
    /\ pipe[j].pending = MsgNone

\* C26 as stated: in a re-encoding concatenation whose probes all succeeded
\* every progress event records the value derived from min(99, round(time /
\* total * 100)) of its timemark, and the recorded progress stays below the
\* value of the next step boundary until the stage completes.
C26_TimemarkProgress ==
  [][\A j \in DOMAIN pipe : \A t \in ConcatTimemarks, raw \in RawPercents :
       (/\ ConcatProgress(j, t, raw)
        /\ pipe[j].reencode
        /\ pipe[j].probeFailures = 0
        /\ pipe[j].totalDuration > 0)
         => /\ jobs'[j].progress =
                 Round(pipe[j].completedSteps * 100
                         + Min(99, Round(parseTimemark(t) * 100, pipe[j].totalDuration)),
                       pipe[j].totalSteps)
            /\ jobs'[j].progress
                 < Round((pipe[j].completedSteps + 1) * 100, pipe[j].totalSteps)]_vars

\* C26 amended: in such a concatenation every progress event that carries a
\* timemark records the value derived from min(99, round(time / total * 100)),
\* which is at most the value of the next step boundary (and equal to it
\* when 99 is forwarded); an event without a timemark records the value
\* derived from min(100, round(percent)), or nothing if it has no percent.
C26_TimemarkProgressAmended ==
  [][\A j \in DOMAIN pipe : \A t \in ConcatTimemarks, raw \in RawPercents :
       (/\ ConcatProgress(j, t, raw)
        /\ pipe[j].reencode
        /\ pipe[j].probeFailures = 0
        /\ pipe[j].totalDuration > 0)
         => LET cs == pipe[j].completedSteps
                ts == pipe[j].totalSteps
                p == Min(99, Round(parseTimemark(t) * 100, pipe[j].totalDuration)) IN
              /\ t # <<>>
                   => /\ jobs'[j] = JobRecord(Round(cs * 100 + p, ts), "processing", MsgNone)
                      /\ jobs'[j].progress <= Round((cs + 1) * 100, ts)
                      /\ p = 99 => jobs'[j].progress = Round((cs + 1) * 100, ts)
              /\ (t = <<>> /\ Truthy(raw))
                   => jobs'[j] = JobRecord(Round(cs * 100 + Min(100, Round(raw, 10)), ts),
                                           "processing", MsgNone)
              /\ (t = <<>> /\ ~Truthy(raw)) => jobs'[j] = jobs[j]
              /\ pipe'[j].completedSteps = cs]_vars

C26_Witness ==
  \E j \in DOMAIN pipe :
    /\ pipe[j].pc = "concat"
    /\ pipe[j].reencode
    /\ pipe[j].probeFailures = 0
    /\ pipe[j].totalDuration = 120
    /\ pipe[j].completedSteps = 0
    /\ jobs[j].progress = 25

\* C27: once the Combine stage of a concatenate-first job is started, its
\* input for each camera is the padded file if a Pad stage of that camera
\* was started and the concatenated file otherwise, and at most one camera
\* was padded.
C27_CombineInputs ==
  \A j \in DOMAIN pipe :
    (pipe[j].mode = "ConcatenateFirst"
       /\ \E n \in 1..Len(started[j]) : started[j][n] = StageCombine(0))
      => LET padded(k) == \E n \in 1..Len(started[j]) : started[j][n] = StagePad(k) IN
           /\ pipe[j].finalConcatAPath = IF padded(CamA) THEN PaddedAPath ELSE ConcatAPath
           /\ pipe[j].finalConcatBPath = IF padded(CamB) THEN PaddedBPath ELSE ConcatBPath
           /\ ~(padded(CamA) /\ padded(CamB))
           /\ padded(CamA) => files[PaddedAPath] = [owner |-> j, complete |-> TRUE]
           /\ padded(CamB) => files[PaddedBPath] = [owner |-> j, complete |-> TRUE]

C27_Witness ==
  \E j \in DOMAIN pipe :
    /\ pipe[j].pc = "combine"
    /\ pipe[j].padTarget = CamA
    /\ pipe[j].finalConcatAPath = PaddedAPath
    /\ pipe[j].finalConcatBPath = ConcatBPath

\* A turn of job j's pipeline under the events of concurrent jobs.
TurnOfConc(j) ==
  PipelineTurn(j, {405}, {<<0, 0, 30>>}, {ProbeDuration(60)},
               {ProbeError, ProbeDuration(60), ProbeDuration(70)})

\* C28: a turn of one job's pipeline (progress update, step completion,
\* completion, failure) leaves the record of every other job as it was, and
\* so does a process request that registers a new job.
C28_WritesTouchOwnRecord ==
  [][/\ \A j \in DOMAIN pipe :
          TurnOfConc(j) => \A k \in DOMAIN jobs \ {j} : jobs'[k] = jobs[k]
     /\ \A k \in DOMAIN jobs : k \in DOMAIN jobs'
     /\ response'.kind # "none" => \A k \in DOMAIN jobs : jobs'[k] = jobs[k]]_vars

C28_Witness ==
  \E j, k \in DOMAIN pipe :
    /\ j # k
    /\ pipe[j].pc = "failed"
    /\ jobs[j].status = "error"
    /\ pipe[k].pc = "done"
    /\ jobs[k] = JobRecord(100, "done", MsgNone)

\* C29: no turn of a pipeline removes a file of the output directory, a
\* turn in which a job aborts leaves every whole output file as it is, and a
\* file list is removed only by the concatenation that settles (the reset
\* request is the one that empties the output directory).
C29_AbortKeepsOutputs ==
  [][\/ Reset
     \/ /\ \A p \in OutputPaths : files[p] # NoFile => files'[p] # NoFile
        /\ \A j \in DOMAIN pipe :
             (pipe'[j].pc \in {"rejected", "failed"} /\ pipe'[j].pc # pipe[j].pc)
               => \A p \in OutputPaths : files[p].complete => files'[p] = files[p]
        /\ \A t \in ListPaths :
             (tmp[t].present /\ ~tmp'[t].present)
               => \E j \in DOMAIN pipe :
                    pipe[j].pc = "concatCleanup" /\ pipe[j].tempListPath = t]_vars

C29_Witness ==
  \E j \in DOMAIN pipe :
    /\ pipe[j].pc = "failed"
    /\ pipe[j].mode = "Pairwise"
    /\ failure[j].stage = StageCombine(2)
    /\ files[PairPath(1)] = [owner |-> j, complete |-> TRUE]
    /\ files[PairPath(2)] = [owner |-> j, complete |-> FALSE]

\* C30: a duration probe rejects when ffprobe reports an error ("Failed to
\* get video duration") or the metadata has an undefined or null duration
\* ("Could not determine video duration"), and resolves with the duration
\* otherwise: a rejected probe of a stream fails the job with that message
\* and records no duration, a rejected probe of an input adds nothing to the
\* total.
C30_ProbeOutcome ==
  [][\A j \in DOMAIN pipe :
       \A answer \in StreamProbeAnswers \cup SegmentProbeAnswers \cup {ProbeNullDuration} :
         LET absent == answer.duration = Undefined \/ answer.duration = Null
             msg == IF answer.err THEN MsgProbe ELSE MsgNoDuration IN
           /\ ProbeADone(j, answer)
                => IF answer.err \/ absent
                     THEN /\ jobs'[j].error = msg
                          /\ pipe'[j].pc = "rejected"
                          /\ pipe'[j].durationA = pipe[j].durationA
                     ELSE /\ pipe'[j].durationA = answer.duration
                          /\ pipe'[j].pc = "probeB"
           /\ ProbeBDone(j, answer)
                => IF answer.err \/ absent
                     THEN /\ jobs'[j].error = msg
                          /\ pipe'[j].pc = "rejected"
                          /\ pipe'[j].durationB = pipe[j].durationB
                     ELSE /\ pipe'[j].durationB = answer.duration
                          /\ pipe'[j].pc \in {"pad", "combine"}
           /\ ConcatProbeDone(j, answer)
                => IF answer.err \/ absent
                     THEN /\ pipe'[j].totalDuration = pipe[j].totalDuration
                          /\ pipe'[j].probeFailures = pipe[j].probeFailures + 1
                     ELSE /\ pipe'[j].totalDuration = pipe[j].totalDuration + answer.duration
                          /\ pipe'[j].probeFailures = pipe[j].probeFailures]_vars

C30_Witness ==
  \E j \in DOMAIN pipe :
    /\ pipe[j].pc = "failed"
    /\ failure[j].stage = StageProbe(CamB)
    /\ failure[j].msg = MsgNoDuration
    /\ pipe[j].durationA = 70
    /\ pipe[j].durationB = 0

\* C32: a job whose status is done has progress exactly 100, and a job's
\* status becomes done only in the turn in which its Compress stage ends
\* successfully, after every stage of its pipeline was started.
C32_DoneMeansCompressed ==
  [][\A j \in DOMAIN jobs' :
       jobs'[j].status = "done"
         => /\ jobs'[j].progress = 100
            /\ j \in DOMAIN jobs
            /\ jobs[j].status # "done" => CompressEnd(j)
            /\ started'[j] = ExpectedStages(pipe'[j])
            /\ started'[j][Len(started'[j])] = StageCompress
            /\ inflight'[j] = 0
            /\ pipe'[j].completedSteps = pipe'[j].totalSteps]_vars

C32_Witness ==
  \E j \in DOMAIN jobs :
    /\ jobs[j] = JobRecord(100, "done", MsgNone)
    /\ pipe[j].mode = "Pairwise"
    /\ Len(pipe[j].a) = 2
    /\ Len(started[j]) = 4
    /\ files[FinalPath] = [owner |-> j, complete |-> TRUE]


\* C36: after a reset the job registry is empty, so a status request and a
\* download for any job created before the reset answer "Job not found".
C36_ResetClearsJobs ==
  [][Reset
       => /\ DOMAIN jobs' = {}
          /\ \A id \in DOMAIN jobs :
               /\ StatusResponse(jobs', id).code = 404
               /\ DownloadResponse(jobs', files', id).error = "Job not found"]_vars

\* C35: the lists a job works on are the ones stored when it was created:
\* no request changes them, a POST /order touches no pipeline, and every
\* stage takes its inputs from them (pair i combines a[i] with b[i], the
\* concatenation of a camera takes that camera's whole list in order),
\* whatever ordering is stored by then.
C35_OrderSnapshot ==
  [][/\ \A j \in DOMAIN pipe' \ DOMAIN pipe :
          pipe'[j].a = videoOrder.a /\ pipe'[j].b = videoOrder.b
     /\ \A j \in DOMAIN pipe :
          /\ pipe'[j].a = pipe[j].a /\ pipe'[j].b = pipe[j].b
          /\ videoOrder' # videoOrder => pipe'[j] = pipe[j]
          /\ (pipe'[j].mode = "Pairwise" /\ pipe'[j].pc = "combine")
               => LET i == Len(pipe'[j].pairPaths) + 1 IN
                    /\ i <= Len(pipe[j].a)
                    /\ pipe'[j].inputPaths = <<pipe[j].a[i], pipe[j].b[i]>>
          /\ (pipe'[j].mode = "Pairwise" /\ pipe'[j].pc = "concatWrite")
               => Len(pipe'[j].pairPaths) = Len(pipe[j].a)
          /\ (pipe'[j].mode = "ConcatenateFirst"
                /\ pipe'[j].pc \in {"concatProbe", "concatWrite", "concat"})
               => /\ pipe'[j].inputPaths = IF pipe'[j].cam = CamA THEN pipe[j].a ELSE pipe[j].b
                  /\ pipe'[j].inputs = Len(pipe'[j].inputPaths)]_vars

C35_Witness ==
  \E j \in DOMAIN pipe :
    /\ pipe[j].mode = "Pairwise"
    /\ pipe[j].pc = "combine"
    /\ Len(pipe[j].pairPaths) = 1
    /\ pipe[j].a # videoOrder.a
    /\ pipe[j].inputPaths = <<pipe[j].a[2], pipe[j].b[2]>>

\* C34: two concatenations of different jobs that are under way at the same
\* time have different file-list paths, and while the tool of one runs the
\* list at its path is the one it wrote, also when both were named at the
\* same clock reading.
C34_ListPathsDistinct ==
  \A j \in DOMAIN pipe :
    /\ \A k \in DOMAIN pipe :
         (/\ j # k
          /\ pipe[j].pc \in {"concatWrite", "concat", "concatCleanup"}
          /\ pipe[k].pc \in {"concatWrite", "concat", "concatCleanup"})
           => pipe[j].tempListPath # pipe[k].tempListPath
    /\ pipe[j].pc = "concat" => tmp[pipe[j].tempListPath] = [owner |-> j, present |-> TRUE]

\* C33: on a run in which no stage fails and the percents each stage passes
\* on are within 0..100 and non-decreasing, a job's recorded progress starts
\* at 0, never decreases, stays within 0..100 and is 100 when the job is done;
\* the update at a step's completion is round(completedSteps / totalSteps *
\* 100) and is not lower than the value recorded before it.
C33_ProgressOnGoodRuns ==
  [][/\ \A j \in DOMAIN jobs' \ DOMAIN jobs : jobs'[j].progress = 0
     /\ \A j \in DOMAIN jobs :
          /\ jobs'[j].progress >= jobs[j].progress
          /\ jobs'[j].progress \in 0..100
          /\ jobs'[j].status # "error"
          /\ pipe'[j].completedSteps # pipe[j].completedSteps
               => /\ pipe'[j].completedSteps = pipe[j].completedSteps + 1
                  /\ jobs'[j].progress
                       = Round(pipe'[j].completedSteps * 100, pipe[j].totalSteps)
          /\ pipe'[j].pc = "done" => jobs'[j].progress = 100]_vars

C33_Witness ==
  \E j \in DOMAIN pipe :
    /\ pipe[j].pc = "concat"
    /\ pipe[j].cam = CamB
    /\ pipe[j].reported = 99
    /\ jobs[j] = JobRecord(50, "processing", MsgNone)

\* C31: when every tool, probe and file operation of a job delivers its
\* result, the job eventually has status done or error; a job that is no
\* longer processing is done exactly if no stage, probe or input lookup of
\* it failed, and then it has started every stage of its pipeline.
C31_JobTerminates ==
  /\ \A j \in JobIds :
       (j \in DOMAIN jobs) ~> (j \in DOMAIN jobs /\ jobs[j].status \in {"done", "error"})
  /\ [](\A j \in DOMAIN jobs :
          /\ jobs[j].status = "done"
               <=> (pipe[j].pc = "done" /\ failure[j] = NoFailure)
          /\ jobs[j].status = "error" <=> failure[j] # NoFailure
          /\ jobs[j].status = "done" => started[j] = ExpectedStages(pipe[j]))

C31_Witness ==
  \E j \in DOMAIN jobs :
    /\ jobs[j].status = "error"
    /\ pipe[j].pc = "failed"
    /\ pipe[j].mode = "ConcatenateFirst"
    /\ failure[j].stage = StagePad(CamB)
    /\ Len(started[j]) = 5

\* C37: a status poll is issued only while the client holds that job's id
\* and its status is processing; a poll that returns done or error, or fails,
\* leaves the client out of the processing state with no interval set; from
\* then on no poll is issued for that job; and a download link is shown only
\* for a job a poll has returned done for.
C37_ClientPolling ==
  [][/\ \A j \in JobIds :
          /\ client'.polls[j] > client.polls[j]
               => /\ client'.jobId = j
                  /\ client'.status = "processing"
                  /\ j \notin client.settled
          /\ (j \in client'.settled /\ j \notin client.settled)
               => /\ client'.status \in {"done", "error"}
                  /\ ~client'.isProcessing
                  /\ client'.timer = NoJob
     /\ client'.timer # NoJob
          => client'.jobId = client'.timer /\ client'.status = "processing"
     /\ client'.downloadUrl # NoJob => client'.downloadUrl \in client'.doneSeen]_vars

\* C38: when the order request of handleProcess has been answered, the
\* server's stored ordering is the two lists the client sent and the client
\* goes on to the process request.
C38_ClientOrderAccepted ==
  [][(client.pc = "ordering" /\ client'.pc # "ordering")
       => /\ videoOrder' = [a |-> client.orderA, b |-> client.orderB]
          /\ client'.pc = "starting"
          /\ client'.status = "processing"]_vars

====
